---- MODULE Spec2Model ----
(***************************************************************************)
(* Model of MidiEncoder (midi_encoder.py): pattern validation at           *)
(* construction, and encode_chunk, which demultiplexes a deque of nibbles  *)
(* into MessageComponents keyed by (message_id, component_type), builds    *)
(* note_on/note_off pairs from the complete component sets and reports the *)
(* unused nibbles as a Remainder.                                          *)
(*                                                                         *)
(* A pattern is a sequence of one-character strings.  A deque is a         *)
(* sequence whose head is the left end.  An Optional value is a sequence   *)
(* of length at most one (<<>> is None).  A string of '0'/'1' characters   *)
(* is a sequence over {0,1}.  The time of a note_off is a fraction; it is  *)
(* held as a whole number of 1/DurationDenom units.                        *)
(***************************************************************************)
EXTENDS Integers, Sequences, FiniteSets, TLC

VARIABLES
    ctor,        \* "new" | "constructed" | "PatternError": outcome of MidiEncoder(arg)
    arg,         \* the pattern argument handed to the constructor
    pattern,     \* self.pattern (<<>> while no Encoder exists)
    pc,          \* per call: "idle" | "loop" | "returned" | "NibbleProcessingError"
    input,       \* per call: the nibbles the caller put in its deque before the call
    nibbles,     \* per call: the caller's deque, mutated by encode_chunk
    components,  \* per call: local set of MessageComponent
    message_id,  \* per call: local counter
    messages,    \* per call: returned list of (note_on, note_off)
    remainder    \* per call: returned Optional[Remainder]

vars == <<ctor, arg, pattern, pc, input, nibbles, components, message_id,
          messages, remainder>>

-----------------------------------------------------------------------------
(* Bounds of the model *)

MaxPatLen == 1        \* every pattern up to this length is tried
MaxNibbles == 11      \* longest deque handed to a call
MaxRichNibbles == 6   \* longest deque drawn from NibbleVals; longer ones from CoarseNibbleVals
MaxCycles == 2        \* a deque holds at most this many full cycles and a partial one
MaxConcNibbles == 6   \* longest deque of a concurrent call

Calls == {1, 2}
NibbleVals == {0, 3, 12}
CoarseNibbleVals == {0, 12}
ConcNibbleVals == {3, 12}

-----------------------------------------------------------------------------
(* Data *)

ValidChars == {"c", "n", "v", "t", "l"}
ForeignChars == {"x"}

NibbleTarget == [ch \in ValidChars |->
    CASE ch = "c" -> "CHANNEL" [] ch = "n" -> "NOTE" [] ch = "v" -> "VELOCITY"
      [] ch = "t" -> "TIMING" [] ch = "l" -> "LENGTH"]

Kinds == {"CHANNEL", "NOTE", "VELOCITY", "TIMING", "LENGTH"}

Min2(a, b) == IF a <= b THEN a ELSE b

SetMin(S) == CHOOSE m \in S : \A x \in S : m <= x

RECURSIVE Sorted(_)
Sorted(S) == IF S = {} THEN <<>>
             ELSE LET m == SetMin(S) IN <<m>> \o Sorted(S \ {m})

SeqsUpTo(V, n) == UNION {[1..m -> V] : m \in 0..n}

(* MessageComponent.__eq__/__hash__: identity is (message_id, component_type) *)
SameKey(a, b) == a.message_id = b.message_id /\ a.component_type = b.component_type

MessageComponent(mid, target, value) ==
    [message_id |-> mid, component_type |-> target, value |-> value]

(* set.update: an element equal to one already in the set is not stored *)
SetUpdate(S, N) == S \cup {c \in N : ~ \E d \in S : SameKey(c, d)}

-----------------------------------------------------------------------------
(* MidiEncoder.__init__ *)

(* variant: the emptiness test is missing *)
PatternIsValidLax(p) == \A i \in 1..Len(p) : p[i] \in ValidChars

PatternIsValid(p) == p # <<>> /\ \A i \in 1..Len(p) : p[i] \in ValidChars

-----------------------------------------------------------------------------
(* MidiEncoder._create_message_components *)

(* variant: the shift is missing *)
ShiftOrNoShift(v, n) == v + n

(* (v << 4) | n, for a nibble n in 0..15 *)
ShiftOr(v, n) == (v * 16) + n

RECURSIVE ComponentsLoop(_, _, _, _, _)
ComponentsLoop(pat, pattern_nibbles, mid, i, comps) ==
    IF i > Len(pattern_nibbles) THEN comps
    ELSE LET target == NibbleTarget[pat[i]]
             existing == {c \in comps : c.message_id = mid /\ c.component_type = target}
         IN IF existing # {}
            THEN LET e == CHOOSE c \in existing : TRUE
                     new_value == ShiftOr(e.value, pattern_nibbles[i])
                 IN ComponentsLoop(pat, pattern_nibbles, mid, i + 1,
                        (comps \ {e}) \cup {MessageComponent(mid, target, new_value)})
            ELSE ComponentsLoop(pat, pattern_nibbles, mid, i + 1,
                        comps \cup {MessageComponent(mid, target, pattern_nibbles[i])})

CreateMessageComponents(pat, pattern_nibbles, mid) ==
    ComponentsLoop(pat, pattern_nibbles, mid, 1, {})

-----------------------------------------------------------------------------
(* MidiEncoder._calculate_note_length *)

DurationDenom == 1024

NoteDurations == <<1024, 768, 512, 384, 256, 192, 128, 96, 64, 48, 32, 24, 16, 12, 8, 6>>

CalculateNoteLength(length_value) ==
    IF length_value \in 0..15 THEN NoteDurations[length_value + 1] ELSE NoteDurations[1]

-----------------------------------------------------------------------------
(* MidiEncoder._create_message_pairs_from_components *)

Message(type, channel, note, velocity, time) ==
    [type |-> type, channel |-> channel, note |-> note, velocity |-> velocity,
     time |-> time]

HasAll(msg_components) ==
    \A t \in ValidChars : NibbleTarget[t] \in {c.component_type : c \in msg_components}

Param(msg_components, kind) ==
    (CHOOSE c \in msg_components : c.component_type = kind).value

(* variant: the min() clamps are missing *)
MessagePairNoClamp(msg_components) ==
    <<Message("note_on", Param(msg_components, "CHANNEL"), Param(msg_components, "NOTE"),
              Param(msg_components, "VELOCITY"), Param(msg_components, "TIMING")),
      Message("note_off", Param(msg_components, "CHANNEL"), Param(msg_components, "NOTE"),
              0, CalculateNoteLength(Param(msg_components, "LENGTH")))>>

MessagePair(msg_components) ==
    <<Message("note_on",
              Min2(Param(msg_components, "CHANNEL"), 15),
              Min2(Param(msg_components, "NOTE"), 127),
              Min2(Param(msg_components, "VELOCITY"), 127),
              Param(msg_components, "TIMING")),
      Message("note_off",
              Min2(Param(msg_components, "CHANNEL"), 15),
              Min2(Param(msg_components, "NOTE"), 127),
              0,
              CalculateNoteLength(Param(msg_components, "LENGTH")))>>

RECURSIVE PairsLoop(_, _)
PairsLoop(comps, mids) ==
    IF mids = <<>> THEN <<>>
    ELSE LET mid == Head(mids)
             msg_components == {c \in comps : c.message_id = mid}
         IN (IF HasAll(msg_components) THEN <<MessagePair(msg_components)>> ELSE <<>>)
            \o PairsLoop(comps, Tail(mids))

Reverse(s) == [i \in 1..Len(s) |-> s[Len(s) + 1 - i]]

(* variant: the message ids are visited in descending order *)
CreateMessagePairsFromComponentsDescending(comps) ==
    PairsLoop(comps, Reverse(Sorted({c.message_id : c \in comps})))

CreateMessagePairsFromComponents(comps) ==
    PairsLoop(comps, Sorted({c.message_id : c \in comps}))

-----------------------------------------------------------------------------
(* Remainder *)

RECURSIVE ToBinary(_)
ToBinary(n) == IF n < 2 THEN <<n>> ELSE ToBinary(n \div 2) \o <<n % 2>>

RECURSIVE ZeroPad(_, _)
ZeroPad(s, width) == IF Len(s) >= width THEN s ELSE ZeroPad(<<0>> \o s, width)

(* format(n, '04b') *)
Format04b(n) == ZeroPad(ToBinary(n), 4)

RECURSIVE JoinBits(_)
JoinBits(ns) == IF ns = <<>> THEN <<>> ELSE Format04b(Head(ns)) \o JoinBits(Tail(ns))

(* variant: pattern_position counts the unused nibbles *)
RemainderOfLeftover(left, comps, pat) ==
    IF left # <<>>
    THEN <<[bits |-> JoinBits(left), pattern_position |-> Len(left) % Len(pat)]>>
    ELSE <<>>

RemainderOf(left, comps, pat) ==
    IF left # <<>>
    THEN <<[bits |-> JoinBits(left), pattern_position |-> Cardinality(comps) % Len(pat)]>>
    ELSE <<>>

-----------------------------------------------------------------------------
(* The caller's choices *)

Chars == ValidChars \cup ForeignChars

ListedPatterns == { <<"n", "n">>, <<"c", "n">>, <<"c", "x">>, <<"x", "c">>,
                    <<"c", "n", "v", "t", "l">>,
                    <<"c", "n", "v", "t", "l", "x">>,
                    <<"c", "n", "v", "c", "n", "v", "t", "l", "t", "l">> }

Patterns == SeqsUpTo(Chars, MaxPatLen) \cup ListedPatterns

ConcPatterns == { <<"n", "n", "c">>, <<"c", "n", "v", "t", "l">> }

InputLen(pat) == Min2(MaxNibbles, (MaxCycles + 1) * Len(pat) - 1)

Inputs(pat) == SeqsUpTo(NibbleVals, Min2(InputLen(pat), MaxRichNibbles))
                   \cup SeqsUpTo(CoarseNibbleVals, InputLen(pat))

ConcInputs(pat) == SeqsUpTo(ConcNibbleVals, MaxConcNibbles)

-----------------------------------------------------------------------------
(* State machine *)

Init ==
    /\ ctor = "new"
    /\ arg = <<>>
    /\ pattern = <<>>
    /\ pc = [k \in Calls |-> "idle"]
    /\ input = [k \in Calls |-> <<>>]
    /\ nibbles = [k \in Calls |-> <<>>]
    /\ components = [k \in Calls |-> {}]
    /\ message_id = [k \in Calls |-> 0]
    /\ messages = [k \in Calls |-> <<>>]
    /\ remainder = [k \in Calls |-> <<>>]

(* MidiEncoder(p) *)
Construct(p) ==
    /\ ctor = "new"
    /\ arg' = p
    /\ IF PatternIsValid(p)
       THEN ctor' = "constructed" /\ pattern' = p
       ELSE ctor' = "PatternError" /\ pattern' = pattern
    /\ UNCHANGED <<pc, input, nibbles, components, message_id, messages, remainder>>

(* variant: the emptiness test is missing *)
EncodeChunkNoCheck(k, S) ==
    /\ ctor = "constructed"
    /\ pc[k] = "idle"
    /\ \E s \in S :
          /\ input' = [input EXCEPT ![k] = s]
          /\ nibbles' = [nibbles EXCEPT ![k] = s]
          /\ pc' = [pc EXCEPT ![k] = "loop"]
    /\ components' = [components EXCEPT ![k] = {}]
    /\ message_id' = [message_id EXCEPT ![k] = 0]
    /\ UNCHANGED <<ctor, arg, pattern, messages, remainder>>

(* encode_chunk(deque(s)) for some s of S: entry, up to the first test of the
   while condition *)
EncodeChunk(k, S) ==
    /\ ctor = "constructed"
    /\ pc[k] = "idle"
    /\ \E s \in S :
          /\ input' = [input EXCEPT ![k] = s]
          /\ nibbles' = [nibbles EXCEPT ![k] = s]
          /\ pc' = [pc EXCEPT ![k] = IF s = <<>> THEN "NibbleProcessingError" ELSE "loop"]
    /\ components' = [components EXCEPT ![k] = {}]
    /\ message_id' = [message_id EXCEPT ![k] = 0]
    /\ UNCHANGED <<ctor, arg, pattern, messages, remainder>>

(* variant: the counter is an attribute of the Encoder, shared by its calls *)
CycleSharedId(k) ==
    /\ pc[k] = "loop"
    /\ Len(nibbles[k]) >= Len(pattern)
    /\ LET pattern_length == Len(pattern)
           current_nibbles == SubSeq(nibbles[k], 1, pattern_length)
           new_components == CreateMessageComponents(pattern, current_nibbles, message_id[1])
       IN /\ nibbles' = [nibbles EXCEPT
                           ![k] = SubSeq(nibbles[k], pattern_length + 1, Len(nibbles[k]))]
          /\ components' = [components EXCEPT ![k] = SetUpdate(components[k], new_components)]
          /\ message_id' = [j \in Calls |-> message_id[1] + 1]
    /\ UNCHANGED <<ctor, arg, pattern, pc, input, messages, remainder>>

(* one iteration of the while loop *)
Cycle(k) ==
    /\ pc[k] = "loop"
    /\ Len(nibbles[k]) >= Len(pattern)
    /\ LET pattern_length == Len(pattern)
           current_nibbles == SubSeq(nibbles[k], 1, pattern_length)
           new_components == CreateMessageComponents(pattern, current_nibbles, message_id[k])
       IN /\ nibbles' = [nibbles EXCEPT
                           ![k] = SubSeq(nibbles[k], pattern_length + 1, Len(nibbles[k]))]
          /\ components' = [components EXCEPT ![k] = SetUpdate(components[k], new_components)]
          /\ message_id' = [message_id EXCEPT ![k] = message_id[k] + 1]
    /\ UNCHANGED <<ctor, arg, pattern, pc, input, messages, remainder>>

(* variant: the unused nibbles are removed from the deque *)
ReturnDrains(k) ==
    /\ pc[k] = "loop"
    /\ Len(nibbles[k]) < Len(pattern)
    /\ messages' = [messages EXCEPT ![k] = CreateMessagePairsFromComponents(components[k])]
    /\ remainder' = [remainder EXCEPT ![k] = RemainderOf(nibbles[k], components[k], pattern)]
    /\ nibbles' = [nibbles EXCEPT ![k] = <<>>]
    /\ pc' = [pc EXCEPT ![k] = "returned"]
    /\ UNCHANGED <<ctor, arg, pattern, input, components, message_id>>

(* loop exit, message creation, remainder, return *)
Return(k) ==
    /\ pc[k] = "loop"
    /\ Len(nibbles[k]) < Len(pattern)
    /\ messages' = [messages EXCEPT ![k] = CreateMessagePairsFromComponents(components[k])]
    /\ remainder' = [remainder EXCEPT ![k] = RemainderOf(nibbles[k], components[k], pattern)]
    /\ pc' = [pc EXCEPT ![k] = "returned"]
    /\ UNCHANGED <<ctor, arg, pattern, input, nibbles, components, message_id>>

(* the caller is done with what the call returned or raised; the call's frame
   and the caller's deque are gone *)
Discard(k) ==
    /\ pc[k] \in {"returned", "NibbleProcessingError"}
    /\ pc' = [pc EXCEPT ![k] = "idle"]
    /\ input' = [input EXCEPT ![k] = <<>>]
    /\ nibbles' = [nibbles EXCEPT ![k] = <<>>]
    /\ components' = [components EXCEPT ![k] = {}]
    /\ message_id' = [message_id EXCEPT ![k] = 0]
    /\ messages' = [messages EXCEPT ![k] = <<>>]
    /\ remainder' = [remainder EXCEPT ![k] = <<>>]
    /\ UNCHANGED <<ctor, arg, pattern>>

(* one caller at a time *)
Next ==
    \/ \E p \in Patterns : Construct(p)
    \/ EncodeChunk(1, Inputs(pattern))
    \/ Cycle(1)
    \/ Return(1)
    \/ Discard(1)

Spec == Init /\ [][Next]_vars

(* two callers sharing the Encoder, their steps interleaved *)
NextConc ==
    \/ \E p \in ConcPatterns : Construct(p)
    \/ \E k \in Calls : EncodeChunk(k, ConcInputs(pattern))
    \/ \E k \in Calls : Cycle(k)
    \/ \E k \in Calls : Return(k)
    \/ \E k \in Calls : Discard(k)

SpecConc == Init /\ [][NextConc]_vars

-----------------------------------------------------------------------------
(* What a call is expected to hold, stated from the caller's input alone *)

RECURSIVE Pow16(_)
Pow16(e) == IF e = 0 THEN 1 ELSE 16 * Pow16(e - 1)

RECURSIVE Pow2(_)
Pow2(e) == IF e = 0 THEN 1 ELSE 2 * Pow2(e - 1)

RECURSIVE SumUpTo(_, _)
SumUpTo(f, m) == IF m = 0 THEN 0 ELSE f[m] + SumUpTo(f, m - 1)

KindOfChar(ch) ==
    CASE ch = "c" -> "CHANNEL" [] ch = "n" -> "NOTE" [] ch = "v" -> "VELOCITY"
      [] ch = "t" -> "TIMING" [] ch = "l" -> "LENGTH"

P == Len(pattern)
FullCycles(k) == Len(input[k]) \div P
Leftover(k) == Len(input[k]) % P

(* pattern positions of kind K, in ascending order *)
Positions(K) == Sorted({i \in 1..P : KindOfChar(pattern[i]) = K})
KindsInPattern == {KindOfChar(pattern[i]) : i \in 1..P}

(* the nibbles of cycle r at the positions of kind K, most significant first *)
FoldValue(k, r, K) ==
    LET pos == Positions(K)
        m == Len(pos)
        term == [j \in 1..m |-> input[k][r * P + pos[j]] * Pow16(m - j)]
    IN SumUpTo(term, m)

Running(k) == pc[k] \in {"loop", "returned"}
Returned(k) == pc[k] = "returned"

(* the Component (r, K) of call k *)
Comp(k, r, K) == CHOOSE c \in components[k] : c.message_id = r /\ c.component_type = K
HasComp(k, r, K) == \E c \in components[k] : c.message_id = r /\ c.component_type = K
RecordIds(k) == {c.message_id : c \in components[k]}
CompleteIds(k) == {r \in RecordIds(k) : \A K \in Kinds : HasComp(k, r, K)}

Duration(L) == IF L >= 0 /\ L <= 15
               THEN <<1024, 768, 512, 384, 256, 192, 128, 96, 64, 48, 32, 24, 16, 12, 8, 6>>[L + 1]
               ELSE 1024

(* the pair of a record with final values C, N, V, T, L *)
PairOfValues(C, N, V, T, L) ==
    <<[type |-> "note_on", channel |-> IF C > 15 THEN 15 ELSE C,
       note |-> IF N > 127 THEN 127 ELSE N,
       velocity |-> IF V > 127 THEN 127 ELSE V, time |-> T],
      [type |-> "note_off", channel |-> IF C > 15 THEN 15 ELSE C,
       note |-> IF N > 127 THEN 127 ELSE N,
       velocity |-> 0, time |-> Duration(L)]>>

PairOfRecord(k, r) ==
    PairOfValues(Comp(k, r, "CHANNEL").value, Comp(k, r, "NOTE").value,
                 Comp(k, r, "VELOCITY").value, Comp(k, r, "TIMING").value,
                 Comp(k, r, "LENGTH").value)

-----------------------------------------------------------------------------
(* C1: the list returned by encode_chunk holds exactly one pair for each
   record that has a Component of all five kinds, nothing for a record that
   misses a kind, and the pairs are in ascending message_id order. *)
C1_PairsOfCompleteRecords ==
    \A k \in Calls : Returned(k) =>
        LET ids == Sorted(CompleteIds(k))
        IN /\ Len(messages[k]) = Cardinality(CompleteIds(k))
           /\ \A i \in 1..Len(ids) : messages[k][i] = PairOfRecord(k, ids[i])

C1_Witness ==
    \E k \in Calls :
        /\ Returned(k)
        /\ Len(messages[k]) = 2
        /\ messages[k][1] # messages[k][2]
        /\ RecordIds(k) = {0, 1}

(* a call whose records all miss a kind returns no pair *)
C1_WitnessIncomplete ==
    \E k \in Calls :
        Returned(k) /\ RecordIds(k) = {0, 1} /\ CompleteIds(k) = {} /\ messages[k] = <<>>

-----------------------------------------------------------------------------
(* C2: the value of Component (r, K) is the left-to-right fold
   v := (v << 4) | nibble over exactly the nibbles of cycle r at the pattern
   positions whose symbol is K; there is one Component for every cycle
   consumed and every kind of the pattern, and no other. *)
C2_ComponentValues ==
    \A k \in Calls : Running(k) =>
        components[k] =
            { [message_id |-> r, component_type |-> K, value |-> FoldValue(k, r, K)] :
                  r \in 0..(message_id[k] - 1), K \in KindsInPattern }

C2_Witness ==
    \E k \in Calls :
        /\ Returned(k)
        /\ message_id[k] = 2
        /\ \E c, d \in components[k] :
              /\ c.message_id = 0 /\ d.message_id = 1
              /\ c.component_type = d.component_type
              /\ c.value > 15 /\ d.value > 15 /\ c.value # d.value

-----------------------------------------------------------------------------
(* C3: the pair of a complete record with final values (C, N, V, T, L) is
   start = (min(C,15), min(N,127), min(V,127), T) and
   end = (min(C,15), min(N,127), 0, d(L)), with d(L) the table entry for L in
   0..15 and the code-0 duration otherwise; T and L are not clamped. *)
C3_ClampAndDuration ==
    \A k \in Calls : Returned(k) =>
        /\ \A r \in CompleteIds(k) :
              \E i \in 1..Len(messages[k]) :
                  messages[k][i] =
                      PairOfValues(FoldValue(k, r, "CHANNEL"), FoldValue(k, r, "NOTE"),
                                   FoldValue(k, r, "VELOCITY"), FoldValue(k, r, "TIMING"),
                                   FoldValue(k, r, "LENGTH"))
        /\ \A i \in 1..Len(messages[k]) :
              /\ messages[k][i][1].channel \in 0..15
              /\ messages[k][i][1].note \in 0..127
              /\ messages[k][i][1].velocity \in 0..127
              /\ messages[k][i][2].velocity = 0
              /\ messages[k][i][2].channel = messages[k][i][1].channel
              /\ messages[k][i][2].note = messages[k][i][1].note

(* every clamp and the duration fallback act on one record, and the timing
   passes through above any clamp *)
C3_Witness ==
    \E k \in Calls :
        /\ Returned(k)
        /\ \E r \in CompleteIds(k) :
              /\ Comp(k, r, "CHANNEL").value > 15
              /\ Comp(k, r, "NOTE").value > 127
              /\ Comp(k, r, "VELOCITY").value > 127
              /\ Comp(k, r, "TIMING").value > 127
              /\ Comp(k, r, "LENGTH").value > 15
              /\ messages[k][1][1].time = Comp(k, r, "TIMING").value
              /\ messages[k][1][2].time = 1024

-----------------------------------------------------------------------------
(* C4: encode_chunk returns no Remainder iff n mod P = 0; otherwise the
   Remainder's bits are the 4-bit MSB-first encodings of the last n mod P
   input nibbles in input order, and its pattern_position is the number of
   Components of the call mod P, a value in 0..P-1. *)
C4_Remainder ==
    \A k \in Calls : Returned(k) =>
        LET n == Len(input[k])
            m == n % P
        IN /\ (remainder[k] = <<>>) <=> (m = 0)
           /\ m # 0 =>
                LET rem == remainder[k][1]
                IN /\ Len(rem.bits) = 4 * m
                   /\ \A j \in 1..(4 * m) :
                         rem.bits[j] =
                             (input[k][n - m + 1 + ((j - 1) \div 4)]
                                 \div Pow2(3 - ((j - 1) % 4))) % 2
                   /\ rem.pattern_position =
                         (FullCycles(k) * Cardinality(KindsInPattern)) % P
                   /\ rem.pattern_position = Cardinality(components[k]) % P
                   /\ rem.pattern_position \in 0..(P - 1)

C4_Witness ==
    \E k \in Calls :
        /\ Returned(k)
        /\ remainder[k] # <<>>
        /\ remainder[k][1].pattern_position # 0
        /\ \E i, j \in 1..Len(remainder[k][1].bits) :
              remainder[k][1].bits[i] # remainder[k][1].bits[j]

-----------------------------------------------------------------------------
(* C5: given fewer nibbles than the pattern length, encode_chunk returns a
   Remainder whose bits have length 4 * (nibbles supplied) and whose
   pattern_position is the number of leftover nibbles. *)
C5_PositionIsLeftoverCount ==
    \A k \in Calls : (Returned(k) /\ Len(input[k]) < P) =>
        /\ remainder[k] # <<>>
        /\ Len(remainder[k][1].bits) = 4 * Len(input[k])
        /\ remainder[k][1].pattern_position = Len(input[k])

-----------------------------------------------------------------------------
(* C6 as stated: when a call returns, the caller's deque is empty. *)
C6_DequeDrained ==
    \A k \in Calls : Returned(k) => nibbles[k] = <<>>

(* C6 amended: when a call returns, the caller's deque holds exactly the last
   n mod P nibbles of the input, the ones the Remainder reports; it is empty
   iff no Remainder is returned. *)
C6_DequeHoldsLeftover ==
    \A k \in Calls : Returned(k) =>
        /\ nibbles[k] = SubSeq(input[k], Len(input[k]) - Leftover(k) + 1, Len(input[k]))
        /\ (nibbles[k] = <<>>) <=> (remainder[k] = <<>>)

C6_Witness ==
    \E k \in Calls :
        /\ Returned(k)
        /\ message_id[k] >= 1
        /\ nibbles[k] # <<>>
        /\ remainder[k] # <<>>

-----------------------------------------------------------------------------
(* C7: encode_chunk on an empty deque raises NibbleProcessingError before any
   cycle is consumed and returns nothing; on a non-empty deque it never raises
   NibbleProcessingError. *)
C7_EmptyInputRaises ==
    \A k \in Calls :
        /\ pc[k] # "idle" => ((pc[k] = "NibbleProcessingError") <=> (input[k] = <<>>))
        /\ pc[k] = "NibbleProcessingError" =>
              /\ message_id[k] = 0
              /\ components[k] = {}
              /\ messages[k] = <<>>
              /\ remainder[k] = <<>>

C7_Witness ==
    \E k \in Calls : pc[k] = "NibbleProcessingError" /\ ctor = "constructed"

(* a non-empty call returns although none of its records is complete and
   although no full cycle could be formed *)
C7_WitnessNoRaise ==
    \E k \in Calls :
        Returned(k) /\ input[k] # <<>> /\ message_id[k] = 0 /\ messages[k] = <<>>

-----------------------------------------------------------------------------
(* C8: MidiEncoder(p) succeeds with pattern = p for every non-empty p over
   {c,n,v,t,l}; it raises PatternError, and no Encoder exists, for the empty
   pattern and for every p with a symbol outside that alphabet. *)
C8_PatternValidation ==
    ctor # "new" =>
        IF arg # <<>> /\ \A i \in 1..Len(arg) : arg[i] \in {"c", "n", "v", "t", "l"}
        THEN ctor = "constructed" /\ pattern = arg
        ELSE /\ ctor = "PatternError"
             /\ pattern = <<>>
             /\ \A k \in Calls : pc[k] = "idle"

C8_Witness ==
    /\ ctor = "PatternError"
    /\ arg # <<>>
    /\ \E i \in 1..Len(arg) : arg[i] \in {"c", "n", "v", "t", "l"}

C8_WitnessRepeated ==
    ctor = "constructed" /\ Len(pattern) = 2 /\ pattern[1] = pattern[2]

-----------------------------------------------------------------------------
(* C9: each call numbers its records 0 .. floor(n/P)-1 whatever the other
   call does; with the steps of two calls on one Encoder interleaved in any
   order, each call returns the events and the Remainder fixed by its own
   input alone, and the Encoder's pattern does not change. *)
ExpectedMessages(k) ==
    IF KindsInPattern = Kinds
    THEN [i \in 1..FullCycles(k) |->
            PairOfValues(FoldValue(k, i - 1, "CHANNEL"), FoldValue(k, i - 1, "NOTE"),
                         FoldValue(k, i - 1, "VELOCITY"), FoldValue(k, i - 1, "TIMING"),
                         FoldValue(k, i - 1, "LENGTH"))]
    ELSE <<>>

ExpectedRemainder(k) ==
    IF Leftover(k) = 0 THEN <<>>
    ELSE <<[bits |-> [j \in 1..(4 * Leftover(k)) |->
                        (input[k][Len(input[k]) - Leftover(k) + 1 + ((j - 1) \div 4)]
                            \div Pow2(3 - ((j - 1) % 4))) % 2],
            pattern_position |-> (FullCycles(k) * Cardinality(KindsInPattern)) % P]>>

C9_CallsIndependent ==
    /\ ctor = "constructed" => pattern = arg
    /\ \A k \in Calls :
          /\ Running(k) =>
                /\ RecordIds(k) = 0..(message_id[k] - 1)
                /\ message_id[k] = (Len(input[k]) - Len(nibbles[k])) \div P
          /\ Returned(k) =>
                /\ message_id[k] = FullCycles(k)
                /\ messages[k] = ExpectedMessages(k)
                /\ remainder[k] = ExpectedRemainder(k)

(* both calls are between two of their cycles, at different record numbers *)
C9_WitnessInterleaved ==
    /\ pc[1] = "loop" /\ pc[2] = "loop"
    /\ message_id[1] = 1 /\ message_id[2] = 0
    /\ Len(nibbles[1]) >= P /\ Len(nibbles[2]) >= P

C9_Witness ==
    /\ Returned(1) /\ Returned(2)
    /\ message_id[1] = 1 /\ message_id[2] = 1
    /\ messages[1] # <<>> /\ messages[2] # <<>>
    /\ messages[1] # messages[2]
    /\ remainder[1] # <<>> /\ remainder[2] = <<>>

-----------------------------------------------------------------------------
(* C10: for a pattern that lays out every kind twice, for two interleaved
   messages, encode_chunk on one full pattern cycle returns two pairs. *)
C10_TwoInterleavedMessages ==
    \A k \in Calls :
        ( /\ Returned(k)
          /\ pattern = <<"c", "n", "v", "c", "n", "v", "t", "l", "t", "l">>
          /\ Len(input[k]) = P )
        => Len(messages[k]) = 2

====
